---- MODULE Spec2Model ----
(***************************************************************************)
(* ClientFlow AI: the automation executor (executeAutomation and its three *)
(* handlers), the automation_runs table it writes, and the query hooks     *)
(* that read and map the backend's rows.                                   *)
(*                                                                         *)
(* Every `await` of the source is one step of the model: the remote call   *)
(* is made, the backend answers (success or one of the failures the client *)
(* library reports as {data, error}), and the synchronous code up to the   *)
(* next `await` runs.  Several executeAutomation calls interleave at these *)
(* steps, as promises do on the single JavaScript thread.                  *)
(***************************************************************************)
EXTENDS Integers, Sequences, FiniteSets, TLC

(***************************************************************************)
(* Bounds of the model.                                                    *)
(***************************************************************************)
MaxCalls == 2      \* executeAutomation invocations in one behaviour
MaxClock == 2      \* distinct readings of the wall clock (new Date())
MaxRows == 2       \* rows of one clients result
MaxRuns == 11      \* rows of automation_runs when the run list is read

Procs == {1, 2}    \* concurrent executeAutomation calls

(***************************************************************************)
(* JavaScript values.  null and undefined are Null; `a || b` is Or(a, b).  *)
(***************************************************************************)
Null == "<null>"

Undef == "<undefined>"

Truthy(v) == v \notin {Null, Undef, ""}

Or(a, b) == IF Truthy(a) THEN a ELSE b

NoData == [kind |-> "none"]

NullTime == 0      \* finished_at: null

NoRun == 0         \* run: null (the insert returned no row)

(***************************************************************************)
(* Results of the handlers: AutomationExecutionResult.                     *)
(***************************************************************************)
Failure(message) == [success |-> FALSE, message |-> message, data |-> NoData]

Success(message, data) == [success |-> TRUE, message |-> message, data |-> data]

NoResult == [success |-> FALSE, message |-> Null, data |-> [kind |-> "pending"]]

(***************************************************************************)
(* Inputs of executeAutomation.  An automation as useAutomations yields it *)
(* carries each alias equal to its canonical column; executeAutomation is  *)
(* exported and typed `any`, so the second family lets the two differ.     *)
(***************************************************************************)
TypeValues == {Null, "email", "meeting", "ai-summary", "sms"}

Config(message, name, content, client) ==
    [email_message |-> message, meeting_name |-> name,
     email_content |-> content, client_id |-> client, email_send_date |-> Null]

(* email_send_date as the form stores it: a date string, or anything else. *)
SendDates == {"", "00:00", "00:02", "00:03", "00:09", "soon"}

Scheduled(config, date) == [config EXCEPT !.email_send_date = date]

Configs ==
    {Config(m, Null, Null, c) : m \in {Null, "", "hello"}, c \in {Null, "C1"}}
    \cup {Scheduled(Config("hello", Null, Null, c), d) :
              c \in {Null, "C1"}, d \in SendDates}
    \cup {Config(Null, n, t, c) : n \in {Null, "kickoff"}, t \in {"", "notes"},
                                  c \in {Null, "C1"}}

FullConfig == Config("hello", "kickoff", "notes", "C1")

Automation(aid, id, type, alias, enabled, active, config) ==
    [automation_id |-> aid, id |-> id, action_type_type |-> type,
     action_type |-> alias, is_enabled |-> enabled, is_active |-> active,
     config |-> config]

CanonicalAutomations ==
    {Automation("A1", "A1", t, t, e, e, c) :
        t \in TypeValues \ {Null}, e \in BOOLEAN, c \in Configs}

AliasAutomations ==
    {Automation(aid, "A2", t, al, e, ac, FullConfig) :
        aid \in {Null, "A1"}, t \in TypeValues, al \in TypeValues,
        e \in BOOLEAN, ac \in BOOLEAN}

ConcurrentAutomations ==
    {Automation(a, a, "email", "email", TRUE, TRUE, FullConfig) : a \in {"A1", "A2"}}

ClientEmails == {Null, "pat@example.com"}

Invocations ==
    (CanonicalAutomations \X ClientEmails) \cup (AliasAutomations \X {Null})

(***************************************************************************)
(* What the backend may answer.                                            *)
(***************************************************************************)
RemoteMessages == {Null, "remote error"}

VARIABLES
    runs,       \* the automation_runs table: row id -> row
    nextRunId,  \* the id the backend gives the next inserted row
    now,        \* the wall clock read by new Date()
    calls,      \* executeAutomation invocations so far
    ex,         \* per call: its position and its local variables
    hist,       \* per call: the requests it has issued, in order (history)
    statusLog,  \* per row id: the statuses the row has had (history)
    clientData, \* useClients: the rows the backend returned
    mappedData, \* useClients: the rows the hook returns
    latestRun,  \* useLatestAutomationRun: the last query and its result
    runsList,   \* useAutomationRuns: the last query and its result
    automations, \* the automations table: the ids of its rows
    del,        \* useDeleteAutomation: the mutation's position and history
    openai      \* VITE_OPENAI_API_KEY and what the two readers made of it

execVars == <<runs, nextRunId, now, calls, ex, hist, statusLog>>

deleteVars == <<automations, del>>

hookVars == <<clientData, mappedData, latestRun, runsList, deleteVars, openai>>

vars == <<execVars, hookVars>>

NoClient == [client_id |-> Null, id |-> Null, name |-> Null, client_name |-> Null]

NoQuery == [automationId |-> Null, user |-> Null, state |-> "idle", data |-> <<>>]

NoClients == [state |-> "idle", data |-> <<>>]

IdleCall ==
    [pc |-> "idle", automation |-> Automation(Null, Null, Null, Null, FALSE, FALSE,
                                              Config(Null, Null, Null, Null)),
     clientEmail |-> Null, run |-> NoRun, result |-> NoResult,
     recipientEmail |-> Null, client |-> NoClient, clientError |-> Null,
     scheduledNote |-> FALSE]

NoHistory == [log |-> <<>>, failedCalls |-> {}, thrown |-> FALSE]

AutomationIds == {"A1", "A2"}

NoDelete == [pc |-> "idle", id |-> Null, log |-> <<>>, failedCalls |-> {}]

NotCalled == [called |-> FALSE]

NoKey == [env |-> [defined |-> FALSE, chars |-> <<>>],
          key |-> NotCalled, configured |-> NotCalled]

Init ==
    /\ runs = <<>>
    /\ nextRunId = 1
    /\ now = 1
    /\ calls = 0
    /\ ex = [p \in Procs |-> IdleCall]
    /\ hist = [p \in Procs |-> NoHistory]
    /\ statusLog = <<>>
    /\ clientData = <<>>
    /\ mappedData = NoClients
    /\ latestRun = NoQuery
    /\ runsList = NoQuery
    /\ automations = AutomationIds
    /\ del = NoDelete
    /\ openai = NoKey

Tick ==
    /\ now < MaxClock
    /\ now' = now + 1
    /\ UNCHANGED <<runs, nextRunId, calls, ex, hist, statusLog, hookVars>>

(***************************************************************************)
(* History bookkeeping: a request issued, a request that failed.           *)
(***************************************************************************)
Logged(p, request) == [hist EXCEPT ![p].log = Append(@, request)]

LoggedFailure(p, request) ==
    [hist EXCEPT ![p].log = Append(@, request),
                 ![p].failedCalls = @ \cup {request}]

(***************************************************************************)
(* The handler of call p returns `result` to executeAutomation, which goes *)
(* on to update the run row.                                               *)
(***************************************************************************)
HandlerReturns(p, result, h) ==
    /\ ex' = [ex EXCEPT ![p].pc = "update", ![p].result = result]
    /\ hist' = [h EXCEPT ![p].log = Append(@, "handler-returned")]

(* Mutant of HandlerThrows: the handler has no catch and rejects.          *)
HandlerThrowsUncaught(p, result, h) ==
    /\ ex' = [ex EXCEPT ![p].pc = "rejected"]
    /\ hist' = [h EXCEPT ![p].thrown = TRUE]

(* A `throw` inside a handler's try block lands in that handler's catch.   *)
HandlerThrows(p, result, h) ==
    /\ ex' = [ex EXCEPT ![p].pc = "update", ![p].result = result]
    /\ hist' = [h EXCEPT ![p].log = Append(@, "handler-returned"),
                         ![p].thrown = TRUE]

(***************************************************************************)
(* executeAutomation: the guard and the start of the run record.           *)
(***************************************************************************)
IsDisabled(automation) == ~automation.is_enabled /\ ~automation.is_active

AutomationIdForRun(automation) == Or(automation.automation_id, automation.id)

ActionType(automation) == Or(automation.action_type_type, automation.action_type)


(* Mutant of Invoke: the handler is dispatched without recording the start. *)
InvokeWithoutInsert(p, automation, clientEmail) ==
    /\ ex[p].pc = "idle"
    /\ calls < MaxCalls
    /\ calls' = calls + 1
    /\ ex' = [ex EXCEPT ![p] = [IdleCall EXCEPT
                 !.pc = IF IsDisabled(automation) THEN "returned" ELSE "dispatch",
                 !.automation = automation, !.clientEmail = clientEmail,
                 !.result = IF IsDisabled(automation)
                            THEN Failure("Automation is disabled") ELSE NoResult]]
    /\ hist' = [hist EXCEPT ![p] = NoHistory]
    /\ UNCHANGED <<runs, nextRunId, now, statusLog, hookVars>>

(* Mutant of Invoke: the enabled flags are not looked at.                  *)
InvokeUnguarded(p, automation, clientEmail) ==
    /\ ex[p].pc = "idle"
    /\ calls < MaxCalls
    /\ calls' = calls + 1
    /\ ex' = [ex EXCEPT ![p] = [IdleCall EXCEPT
                 !.pc = "insert", !.automation = automation,
                 !.clientEmail = clientEmail]]
    /\ hist' = [hist EXCEPT ![p] = NoHistory]
    /\ UNCHANGED <<runs, nextRunId, now, statusLog, hookVars>>

Invoke(p, automation, clientEmail) ==
    /\ ex[p].pc = "idle"
    /\ calls < MaxCalls
    /\ calls' = calls + 1
    /\ IF IsDisabled(automation)
       THEN ex' = [ex EXCEPT ![p] = [IdleCall EXCEPT
                        !.pc = "returned", !.automation = automation,
                        !.clientEmail = clientEmail,
                        !.result = Failure("Automation is disabled")]]
       ELSE ex' = [ex EXCEPT ![p] = [IdleCall EXCEPT
                        !.pc = "insert", !.automation = automation,
                        !.clientEmail = clientEmail]]
    /\ hist' = [hist EXCEPT ![p] = NoHistory]
    /\ UNCHANGED <<runs, nextRunId, now, statusLog, hookVars>>

NewRun(id, automation) ==
    [id |-> id, automation_id |-> AutomationIdForRun(automation),
     automation_status |-> "running", started_at |-> now,
     finished_at |-> NullTime, error_message |-> Null, result_data |-> NoData]

(* Mutant of InsertRun: a failed insert ends the execution.                *)
InsertRunOrGiveUp(p) ==
    /\ ex[p].pc = "insert"
    /\ \/ /\ runs' = (nextRunId :> NewRun(nextRunId, ex[p].automation)) @@ runs
          /\ statusLog' = (nextRunId :> <<"running">>) @@ statusLog
          /\ nextRunId' = nextRunId + 1
          /\ ex' = [ex EXCEPT ![p].pc = "dispatch", ![p].run = nextRunId]
          /\ hist' = Logged(p, "insert")
       \/ /\ ex' = [ex EXCEPT ![p].pc = "returned", ![p].run = NoRun,
                      ![p].result = Failure("Failed to execute automation")]
          /\ hist' = LoggedFailure(p, "insert")
          /\ UNCHANGED <<runs, nextRunId, statusLog>>
    /\ UNCHANGED <<now, calls, hookVars>>

InsertRun(p) ==
    /\ ex[p].pc = "insert"
    /\ \/ /\ runs' = (nextRunId :> NewRun(nextRunId, ex[p].automation)) @@ runs
          /\ statusLog' = (nextRunId :> <<"running">>) @@ statusLog
          /\ nextRunId' = nextRunId + 1
          /\ ex' = [ex EXCEPT ![p].pc = "dispatch", ![p].run = nextRunId]
          /\ hist' = Logged(p, "insert")
       \/ /\ ex' = [ex EXCEPT ![p].pc = "dispatch", ![p].run = NoRun]
          /\ hist' = LoggedFailure(p, "insert")
          /\ UNCHANGED <<runs, nextRunId, statusLog>>
    /\ UNCHANGED <<now, calls, hookVars>>

Dispatch(p) ==
    /\ ex[p].pc = "dispatch"
    /\ LET type == ActionType(ex[p].automation) IN
       IF type \in {"email", "meeting", "ai-summary"}
       THEN /\ ex' = [ex EXCEPT ![p].pc = type]
            /\ hist' = hist
       ELSE /\ ex' = [ex EXCEPT ![p].pc = "update",
                      ![p].result = Failure("Unknown automation type: " \o type)]
            /\ hist' = Logged(p, "handler-returned")
    /\ UNCHANGED <<runs, nextRunId, now, calls, statusLog, hookVars>>

(***************************************************************************)
(* executeEmailAutomation.                                                 *)
(***************************************************************************)

(* Mutant of EmailCatch: the catch block reports success.                  *)
EmailCatchReportsSuccess(message) ==
    Success(Or(message, "Failed to send email"), NoData)

EmailCatch(message) == Failure(Or(message, "Failed to send email"))

RecipientRequired ==
    "Client email is required. Please select a client or provide an email address."

ClientNotFound(message) == "Client not found: " \o Or(message, "Unknown error")

(* new Date(emailSendDate).getTime(), in minutes; NaN for no date.         *)
GetTime(date) ==
    CASE date = "00:00" -> [nan |-> FALSE, time |-> 0]
      [] date = "00:02" -> [nan |-> FALSE, time |-> 2]
      [] date = "00:03" -> [nan |-> FALSE, time |-> 3]
      [] date = "00:09" -> [nan |-> FALSE, time |-> 9]
      [] OTHER -> [nan |-> TRUE, time |-> 0]

(* minutesUntilSend > 1: the email was scheduled for later.                *)
ScheduledForLater(config) ==
    LET emailSendDate == Or(config.email_send_date, "")
        sendDate == GetTime(emailSendDate)
    IN  /\ Truthy(emailSendDate)
        /\ ~sendDate.nan
        /\ sendDate.time - now > 1

(* Mutant of EmailProceed: an email scheduled for later is not sent now.   *)
EmailProceedDefers(p, recipientEmail, h) ==
    IF ScheduledForLater(ex[p].automation.config)
    THEN HandlerReturns(p, Success("Email scheduled",
                                   [kind |-> "scheduled", sent |-> FALSE,
                                    to |-> recipientEmail]), h)
    ELSE /\ ex' = [ex EXCEPT ![p].pc = "email-session",
                             ![p].recipientEmail = recipientEmail]
         /\ hist' = h

(* The recipient is known: the schedule is looked at, a note is logged for *)
(* an email scheduled for later, and the handler goes on to the session.   *)
EmailProceed(p, recipientEmail, h) ==
    /\ ex' = [ex EXCEPT ![p].pc = "email-session",
                        ![p].recipientEmail = recipientEmail,
                        ![p].scheduledNote =
                            ScheduledForLater(ex[p].automation.config)]
    /\ hist' = h

EmailStart(p) ==
    /\ ex[p].pc = "email"
    /\ LET config == ex[p].automation.config
           emailMessage == Or(config.email_message, "")
           recipientEmail == ex[p].clientEmail
       IN  IF ~Truthy(emailMessage)
           THEN HandlerThrows(p, EmailCatch("Email message is required"), hist)
           ELSE IF ~Truthy(recipientEmail) /\ Truthy(config.client_id)
           THEN /\ ex' = [ex EXCEPT ![p].pc = "email-client"]
                /\ hist' = hist
           ELSE IF ~Truthy(recipientEmail)
           THEN HandlerThrows(p, EmailCatch(RecipientRequired), hist)
           ELSE EmailProceed(p, recipientEmail, hist)
    /\ UNCHANGED <<runs, nextRunId, now, calls, statusLog, hookVars>>

EmailFetchClient(p) ==
    /\ ex[p].pc = "email-client"
    /\ \/ \E message \in RemoteMessages :
            HandlerThrows(p, EmailCatch(ClientNotFound(message)),
                          LoggedFailure(p, "fetch-client"))
       \/ \E email \in {Null, "client@example.com"} :
            IF ~Truthy(email)
            THEN HandlerThrows(p, EmailCatch(RecipientRequired),
                               Logged(p, "fetch-client"))
            ELSE EmailProceed(p, email, Logged(p, "fetch-client"))
    /\ UNCHANGED <<runs, nextRunId, now, calls, statusLog, hookVars>>

(* Mutant of EmailSession: the email is sent without a session.            *)
EmailSessionUnchecked(p) ==
    /\ ex[p].pc = "email-session"
    /\ \/ /\ ex' = [ex EXCEPT ![p].pc = "email-send"]
          /\ hist' = Logged(p, "get-session")
       \/ /\ ex' = [ex EXCEPT ![p].pc = "email-send"]
          /\ hist' = LoggedFailure(p, "get-session")
    /\ UNCHANGED <<runs, nextRunId, now, calls, statusLog, hookVars>>

EmailSession(p) ==
    /\ ex[p].pc = "email-session"
    /\ \/ /\ ex' = [ex EXCEPT ![p].pc = "email-send"]
          /\ hist' = Logged(p, "get-session")
       \/ HandlerThrows(p, EmailCatch("User not authenticated"),
                        Logged(p, "get-session"))
       \/ HandlerThrows(p, EmailCatch("User not authenticated"),
                        LoggedFailure(p, "get-session"))
    /\ UNCHANGED <<runs, nextRunId, now, calls, statusLog, hookVars>>

EmailSendFailed(message) == Or(message, "Failed to send email")

EmailSent(p, message) ==
    Success(Or(message, "Email sent successfully"),
            [kind |-> "email", sent |-> TRUE, to |-> ex[p].recipientEmail])


(* Mutant of EmailSend: a failed invoke is attempted again.                *)
EmailSendRetries(p) ==
    /\ ex[p].pc = "email-send"
    /\ \/ /\ ex' = ex
          /\ hist' = LoggedFailure(p, "send-email")
       \/ \E message \in RemoteMessages :
            HandlerReturns(p, EmailSent(p, message), Logged(p, "send-email"))
    /\ UNCHANGED <<runs, nextRunId, now, calls, statusLog, hookVars>>

EmailSend(p) ==
    /\ ex[p].pc = "email-send"
    /\ \/ \E message \in RemoteMessages :
            HandlerThrows(p, EmailCatch(EmailSendFailed(message)),
                          LoggedFailure(p, "send-email"))
       \/ \E message \in RemoteMessages :
            HandlerReturns(p, EmailSent(p, message), Logged(p, "send-email"))
    /\ UNCHANGED <<runs, nextRunId, now, calls, statusLog, hookVars>>

(***************************************************************************)
(* executeMeetingFollowUpAutomation.                                       *)
(***************************************************************************)
MeetingCatch(message) ==
    Failure(Or(message, "Failed to send meeting follow-up email"))

MeetingStart(p) ==
    /\ ex[p].pc = "meeting"
    /\ LET config == ex[p].automation.config
           meetingName == Or(config.meeting_name, "")
           emailContent == Or(config.email_content, "")
           recipientEmail == ex[p].clientEmail
       IN  IF ~Truthy(meetingName) \/ ~Truthy(emailContent)
           THEN HandlerThrows(p,
                    MeetingCatch("Meeting name and email content are required"),
                    hist)
           ELSE IF ~Truthy(recipientEmail) /\ Truthy(config.client_id)
           THEN /\ ex' = [ex EXCEPT ![p].pc = "meeting-client"]
                /\ hist' = hist
           ELSE IF ~Truthy(recipientEmail)
           THEN HandlerThrows(p, MeetingCatch(RecipientRequired), hist)
           ELSE /\ ex' = [ex EXCEPT ![p].pc = "meeting-session",
                                    ![p].recipientEmail = recipientEmail]
                /\ hist' = hist
    /\ UNCHANGED <<runs, nextRunId, now, calls, statusLog, hookVars>>

MeetingFetchClient(p) ==
    /\ ex[p].pc = "meeting-client"
    /\ \/ \E message \in RemoteMessages :
            HandlerThrows(p, MeetingCatch(ClientNotFound(message)),
                          LoggedFailure(p, "fetch-client"))
       \/ \E email \in {Null, "client@example.com"} :
            IF ~Truthy(email)
            THEN HandlerThrows(p, MeetingCatch(RecipientRequired),
                               Logged(p, "fetch-client"))
            ELSE /\ ex' = [ex EXCEPT ![p].pc = "meeting-session",
                                     ![p].recipientEmail = email]
                 /\ hist' = Logged(p, "fetch-client")
    /\ UNCHANGED <<runs, nextRunId, now, calls, statusLog, hookVars>>

MeetingSession(p) ==
    /\ ex[p].pc = "meeting-session"
    /\ \/ /\ ex' = [ex EXCEPT ![p].pc = "meeting-send"]
          /\ hist' = Logged(p, "get-session")
       \/ HandlerThrows(p, MeetingCatch("User not authenticated"),
                        Logged(p, "get-session"))
       \/ HandlerThrows(p, MeetingCatch("User not authenticated"),
                        LoggedFailure(p, "get-session"))
    /\ UNCHANGED <<runs, nextRunId, now, calls, statusLog, hookVars>>

MeetingSendFailed(message) ==
    Or(message, "Failed to send meeting follow-up email")

MeetingSent(p, message) ==
    Success(Or(message, "Meeting follow-up email sent for \""
                        \o ex[p].automation.config.meeting_name \o "\""),
            [kind |-> "meeting", sent |-> TRUE, to |-> ex[p].recipientEmail])

MeetingSend(p) ==
    /\ ex[p].pc = "meeting-send"
    /\ \/ \E message \in RemoteMessages :
            HandlerThrows(p, MeetingCatch(MeetingSendFailed(message)),
                          LoggedFailure(p, "send-email"))
       \/ \E message \in RemoteMessages :
            HandlerReturns(p, MeetingSent(p, message), Logged(p, "send-email"))
    /\ UNCHANGED <<runs, nextRunId, now, calls, statusLog, hookVars>>

(***************************************************************************)
(* getOpenAIApiKey.  The environment variable is undefined or a string,    *)
(* here a sequence of characters, so that trim() is computed.              *)
(***************************************************************************)
WhiteSpace == {" ", "\t", "\n"}

RECURSIVE TrimStart(_)
TrimStart(chars) ==
    IF chars # <<>> /\ Head(chars) \in WhiteSpace
    THEN TrimStart(Tail(chars))
    ELSE chars

RECURSIVE TrimEnd(_)
TrimEnd(chars) ==
    IF chars # <<>> /\ chars[Len(chars)] \in WhiteSpace
    THEN TrimEnd(SubSeq(chars, 1, Len(chars) - 1))
    ELSE chars

Trim(chars) == TrimEnd(TrimStart(chars))

Undefined == [defined |-> FALSE, chars |-> <<>>]

Str(chars) == [defined |-> TRUE, chars |-> chars]

EnvKeys == {Undefined, Str(<<>>), Str(<<" ">>), Str(<<" ", "k", " ">>), Str(<<"k">>)}

(* Mutant of GetOpenAIApiKey: the key is returned as it was configured.    *)
GetOpenAIApiKeyUntrimmed(apiKey) ==
    IF ~apiKey.defined \/ apiKey.chars = <<>>
    THEN [threw |-> TRUE, value |-> <<>>,
          message |-> "OpenAI API key not configured. Please add VITE_OPENAI_API_KEY to your .env file"]
    ELSE IF Trim(apiKey.chars) = <<>>
    THEN [threw |-> TRUE, value |-> <<>>,
          message |-> "OpenAI API key is empty. Please check your .env file"]
    ELSE [threw |-> FALSE, value |-> apiKey.chars, message |-> Null]

GetOpenAIApiKey(apiKey) ==
    IF ~apiKey.defined \/ apiKey.chars = <<>>
    THEN [threw |-> TRUE, value |-> <<>>,
          message |-> "OpenAI API key not configured. Please add VITE_OPENAI_API_KEY to your .env file"]
    ELSE IF Trim(apiKey.chars) = <<>>
    THEN [threw |-> TRUE, value |-> <<>>,
          message |-> "OpenAI API key is empty. Please check your .env file"]
    ELSE [threw |-> FALSE, value |-> Trim(apiKey.chars), message |-> Null]

(***************************************************************************)
(* isOpenAIConfigured.  Calling trim() on undefined throws a TypeError;    *)
(* the `&&` evaluates its right operand only when the left one is truthy,  *)
(* and whatever the try block throws is caught and answered with false.    *)
(***************************************************************************)
TrimOf(apiKey) ==
    IF apiKey.defined
    THEN [threw |-> FALSE, value |-> Trim(apiKey.chars)]
    ELSE [threw |-> TRUE, value |-> <<>>]

IsOpenAIConfigured(apiKey) ==
    IF ~apiKey.defined \/ apiKey.chars = <<>>
    THEN [threw |-> FALSE, value |-> FALSE]
    ELSE IF TrimOf(apiKey).threw
    THEN [threw |-> FALSE, value |-> FALSE]
    ELSE [threw |-> FALSE, value |-> TrimOf(apiKey).value # <<>>]

(***************************************************************************)
(* executeAIClientSummaryAutomation.                                       *)
(***************************************************************************)
AICatch(message) == Failure(Or(message, "Failed to generate AI summary"))

ClientRows ==
    {[client_id |-> "C1", id |-> Null, name |-> "Pat", client_name |-> Null],
     [client_id |-> Null, id |-> "C7", name |-> Null, client_name |-> "Pat Co"]}

AIStart(p) ==
    /\ ex[p].pc = "ai-summary"
    /\ IF ~Truthy(ex[p].automation.config.client_id)
       THEN HandlerThrows(p, AICatch("Client ID is required"), hist)
       ELSE /\ ex' = [ex EXCEPT ![p].pc = "ai-client"]
            /\ hist' = hist
    /\ UNCHANGED <<runs, nextRunId, now, calls, statusLog, hookVars>>

AIFetchClient(p) ==
    /\ ex[p].pc = "ai-client"
    /\ \/ \E client \in ClientRows :
            /\ ex' = [ex EXCEPT ![p].pc = "ai-deals", ![p].client = client]
            /\ hist' = Logged(p, "fetch-client")
       \/ \E message \in RemoteMessages :       \* error.code = "PGRST116"
            /\ ex' = [ex EXCEPT ![p].pc = "ai-client-by-id",
                                ![p].clientError = message]
            /\ hist' = LoggedFailure(p, "fetch-client")
       \/ \E message \in RemoteMessages :       \* any other error
            HandlerThrows(p, AICatch(ClientNotFound(message)),
                          LoggedFailure(p, "fetch-client"))
    /\ UNCHANGED <<runs, nextRunId, now, calls, statusLog, hookVars>>

AIFetchClientById(p) ==
    /\ ex[p].pc = "ai-client-by-id"
    /\ \/ \E client \in ClientRows :
            /\ ex' = [ex EXCEPT ![p].pc = "ai-deals", ![p].client = client,
                                ![p].clientError = Null]
            /\ hist' = Logged(p, "fetch-client-by-id")
       \/ HandlerThrows(p, AICatch(ClientNotFound(ex[p].clientError)),
                        LoggedFailure(p, "fetch-client-by-id"))
    /\ UNCHANGED <<runs, nextRunId, now, calls, statusLog, hookVars>>

(* The three auxiliary reads keep `data` only: an error leaves it null.    *)
AIFetchAuxiliary(p, at, request, next) ==
    /\ ex[p].pc = at
    /\ ex' = [ex EXCEPT ![p].pc = next]
    /\ \/ hist' = Logged(p, request)
       \/ hist' = LoggedFailure(p, request)
    /\ UNCHANGED <<runs, nextRunId, now, calls, statusLog, hookVars>>

AIFetchDeals(p) == AIFetchAuxiliary(p, "ai-deals", "fetch-deals", "ai-interactions")

AIFetchInteractions(p) ==
    AIFetchAuxiliary(p, "ai-interactions", "fetch-interactions", "ai-prioritization")

AIFetchPrioritization(p) ==
    AIFetchAuxiliary(p, "ai-prioritization", "fetch-prioritization", "ai-key")

AIKey(p) ==
    /\ ex[p].pc = "ai-key"
    /\ \E apiKey \in EnvKeys :
         LET key == GetOpenAIApiKey(apiKey) IN
         IF key.threw
         THEN HandlerThrows(p, AICatch(key.message), hist)
         ELSE /\ ex' = [ex EXCEPT ![p].pc = "ai-llm"]
              /\ hist' = hist
    /\ UNCHANGED <<runs, nextRunId, now, calls, statusLog, hookVars>>

AISummary(p, content) ==
    LET client == ex[p].client
        clientId == ex[p].automation.config.client_id
    IN  Success("AI client summary generated successfully",
                [kind |-> "ai-summary",
                 clientId |-> Or(client.client_id, Or(client.id, clientId)),
                 clientName |-> Or(client.name, Or(client.client_name, "Unknown")),
                 summary |-> Or(content, "No summary generated"),
                 generatedAt |-> now])

AILLMFailed(message) == Or(message, "Failed to generate AI summary")

AICallLLM(p) ==
    /\ ex[p].pc = "ai-llm"
    /\ \/ \E message \in RemoteMessages :       \* !response.ok
            HandlerThrows(p, AICatch(AILLMFailed(message)),
                          LoggedFailure(p, "llm"))
       \/ \E content \in {Null, "summary text"} :
            HandlerReturns(p, AISummary(p, content), Logged(p, "llm"))
    /\ UNCHANGED <<runs, nextRunId, now, calls, statusLog, hookVars>>

(***************************************************************************)
(* executeAutomation: the status update of the run row, and the return.    *)
(***************************************************************************)
SavesResultData(automation, result) ==
    /\ result.success
    /\ result.data # NoData
    /\ (automation.action_type_type = "ai-summary"
        \/ automation.action_type = "ai-summary")


(* Mutant of UpdateData: the final states are written under other names.   *)
UpdateDataRelabelled(automation, result, row) ==
    [row EXCEPT
        !.automation_status = IF result.success THEN "success" ELSE "error",
        !.error_message = IF result.success THEN Null ELSE result.message,
        !.finished_at = now,
        !.result_data = IF SavesResultData(automation, result)
                        THEN result.data ELSE @]

(* Mutant of UpdateData: a failure is recorded under a fixed text.         *)
UpdateDataFixedText(automation, result, row) ==
    [row EXCEPT
        !.automation_status = IF result.success THEN "completed" ELSE "failed",
        !.error_message = IF result.success THEN Null ELSE "Execution failed",
        !.finished_at = now,
        !.result_data = IF SavesResultData(automation, result)
                        THEN result.data ELSE @]

UpdateData(automation, result, row) ==
    [row EXCEPT
        !.automation_status = IF result.success THEN "completed" ELSE "failed",
        !.error_message = IF result.success THEN Null ELSE result.message,
        !.finished_at = now,
        !.result_data = IF SavesResultData(automation, result)
                        THEN result.data ELSE @]


(* Mutants of UpdateTarget: the filter matches no row; the filter selects  *)
(* by automation instead of by run id.                                     *)
UpdateTargetNone(p) == {id \in DOMAIN runs : id = NoRun}

UpdateTargetByAutomation(p) ==
    {id \in DOMAIN runs :
        runs[id].automation_id = AutomationIdForRun(ex[p].automation)}

UpdateTarget(p) == {id \in DOMAIN runs : id = ex[p].run}

UpdateRun(p) ==
    /\ ex[p].pc = "update"
    /\ ex[p].run # NoRun
    /\ ex' = [ex EXCEPT ![p].pc = "returned"]
    /\ \/ /\ runs' = [id \in DOMAIN runs |->
                        IF id \in UpdateTarget(p)
                        THEN UpdateData(ex[p].automation, ex[p].result, runs[id])
                        ELSE runs[id]]
          /\ statusLog' = [id \in DOMAIN statusLog |->
                        IF id \in UpdateTarget(p)
                        THEN Append(statusLog[id], runs'[id].automation_status)
                        ELSE statusLog[id]]
          /\ hist' = Logged(p, "update")
       \/ /\ hist' = LoggedFailure(p, "update")
          /\ UNCHANGED <<runs, statusLog>>
    /\ UNCHANGED <<nextRunId, now, calls, hookVars>>

SkipUpdate(p) ==
    /\ ex[p].pc = "update"
    /\ ex[p].run = NoRun
    /\ ex' = [ex EXCEPT ![p].pc = "returned"]
    /\ UNCHANGED <<runs, nextRunId, now, calls, hist, statusLog, hookVars>>

(* The caller starts another executeAutomation once this one has returned. *)
Again(p) ==
    /\ ex[p].pc = "returned"
    /\ calls < MaxCalls
    /\ ex' = [ex EXCEPT ![p] = IdleCall]
    /\ hist' = [hist EXCEPT ![p] = NoHistory]
    /\ UNCHANGED <<runs, nextRunId, now, calls, statusLog, hookVars>>

EmailSteps(p) ==
    \/ InsertRun(p) \/ Dispatch(p)
    \/ EmailStart(p) \/ EmailSession(p) \/ EmailSend(p)
    \/ UpdateRun(p) \/ SkipUpdate(p)

Step(p) ==
    \/ InsertRun(p) \/ Dispatch(p)
    \/ EmailStart(p) \/ EmailFetchClient(p) \/ EmailSession(p) \/ EmailSend(p)
    \/ MeetingStart(p) \/ MeetingFetchClient(p) \/ MeetingSession(p)
    \/ MeetingSend(p)
    \/ AIStart(p) \/ AIFetchClient(p) \/ AIFetchClientById(p)
    \/ AIFetchDeals(p) \/ AIFetchInteractions(p) \/ AIFetchPrioritization(p)
    \/ AIKey(p) \/ AICallLLM(p)
    \/ UpdateRun(p) \/ SkipUpdate(p)

(***************************************************************************)
(* Spec: one executeAutomation call on any automation.                     *)
(***************************************************************************)
Next ==
    \/ \E call \in Invocations : Invoke(1, call[1], call[2])
    \/ Step(1)

Spec == Init /\ [][Next]_vars

(***************************************************************************)
(* SpecConc: executeAutomation calls that overlap.                         *)
(***************************************************************************)
NextConc ==
    \E p \in Procs :
       \/ \E a \in ConcurrentAutomations : Invoke(p, a, "pat@example.com")
       \/ EmailSteps(p)
       \/ Again(p)

SpecConc == Init /\ [][NextConc]_vars

(***************************************************************************)
(* useCreateAutomation and useUpdateAutomation: the interface fields are   *)
(* mapped to the database columns.  An optional flag is <<>> when the      *)
(* caller left it undefined, and <<b>> when it is the boolean b.           *)
(***************************************************************************)
OptionalFlags == {<<>>, <<TRUE>>, <<FALSE>>}

OptionalTypes == {Undef, "email", "ai-summary"}

CreateInputs ==
    [action_type_type : OptionalTypes, action_type : OptionalTypes,
     is_enabled : OptionalFlags, is_active : OptionalFlags]

DbAutomation(automation) ==
    [action_type_type |-> Or(automation.action_type_type, automation.action_type),
     is_enabled |-> IF automation.is_enabled # <<>> THEN automation.is_enabled
                    ELSE IF automation.is_active # <<>> THEN automation.is_active
                    ELSE <<TRUE>>]

UpdateInputs ==
    [id : {Undef, "A2"}, automation_id : {Undef, "A1"},
     action_type_type : OptionalTypes, action_type : OptionalTypes,
     is_enabled : OptionalFlags, is_active : OptionalFlags]

TargetId(input) == Or(input.automation_id, input.id)

DbUpdates(updates) ==
    [action_type_type |->
        IF updates.action_type_type # Undef THEN updates.action_type_type
        ELSE IF updates.action_type # Undef THEN updates.action_type
        ELSE Undef,
     is_enabled |->
        IF updates.is_enabled # <<>> THEN updates.is_enabled
        ELSE IF updates.is_active # <<>> THEN updates.is_active
        ELSE <<>>]

(***************************************************************************)
(* useClients: the rows of the signed-in user, mapped to the Client shape. *)
(***************************************************************************)
ClientRecord(ids, sources, statuses) ==
    [client_id |-> ids[1], id |-> ids[2], source |-> sources[1],
     lead_source |-> sources[2], priority |-> statuses[1], status |-> statuses[2],
     name |-> "Pat"]

ClientRecords ==
    {ClientRecord(ids, sources, statuses) :
        ids \in {<<"c1", "i1">>, <<Null, "i1">>, <<"", "i1">>, <<Null, Null>>},
        sources \in {<<"web", "ads">>, <<Null, "ads">>, <<"", "ads">>, <<Null, Null>>,
                     <<"web", Null>>},
        statuses \in {<<"high", "low">>, <<Null, "low">>, <<"", "low">>,
                      <<Null, Null>>, <<"", "">>}}

ClientResults == UNION {[1..n -> ClientRecords] : n \in 0..MaxRows}

(* Mutant of MapClient: the compatibility column is preferred.             *)
MapClientPrefersAlias(client) ==
    [client EXCEPT !.id = Or(client.id, client.client_id),
                   !.source = Or(client.source, Or(client.lead_source, Null)),
                   !.status = Or(client.priority, Or(client.status, Null))]

MapClient(client) ==
    [client EXCEPT !.id = Or(client.client_id, client.id),
                   !.source = Or(client.source, Or(client.lead_source, Null)),
                   !.status = Or(client.priority, Or(client.status, Null))]

UseClients(user) ==
    /\ mappedData.state = "idle"
    /\ \E data \in ClientResults :
         /\ clientData' = (IF Truthy(user) THEN data ELSE <<>>)
         /\ mappedData' = [state |-> "success",
                           data |-> IF Truthy(user)
                                    THEN [i \in DOMAIN data |-> MapClient(data[i])]
                                    ELSE <<>>]
    /\ UNCHANGED <<execVars, latestRun, runsList, deleteVars, openai>>

UseClientsError ==
    /\ mappedData.state = "idle"
    /\ clientData' = <<>>
    /\ mappedData' = [state |-> "error", data |-> <<>>]
    /\ UNCHANGED <<execVars, latestRun, runsList, deleteVars, openai>>

(***************************************************************************)
(* SpecClients: the clients query runs once, on any rows of the backend.   *)
(***************************************************************************)
NextClients ==
    \/ \E user \in {Null, "u1"} : UseClients(user)
    \/ UseClientsError

SpecClients == Init /\ [][NextClients]_vars

(***************************************************************************)
(* useLatestAutomationRun: .eq(automation_id).eq(automation_status,        *)
(* "completed").order(finished_at, descending).limit(1).  The backend      *)
(* sorts a null finished_at first when the order is descending.            *)
(***************************************************************************)
(* Mutant of CompletedRuns: the status filter is missing.                  *)
RunsOfAnyStatus(rows, automationId) ==
    {id \in DOMAIN rows : rows[id].automation_id = automationId}

CompletedRuns(rows, automationId) ==
    {id \in DOMAIN rows :
        /\ rows[id].automation_id = automationId
        /\ rows[id].automation_status = "completed"}

SortsBefore(a, b) ==
    \/ a.finished_at = NullTime
    \/ b.finished_at # NullTime /\ a.finished_at >= b.finished_at

FirstDescending(rows, ids) ==
    {id \in ids : \A other \in ids : SortsBefore(rows[id], rows[other])}

UseLatestAutomationRun(automationId, user) ==
    /\ latestRun.state = "idle"
    /\ LET asked == [automationId |-> automationId, user |-> user,
                     state |-> "success", data |-> <<>>]
           first == FirstDescending(runs, CompletedRuns(runs, automationId))
       IN  IF ~Truthy(automationId) \/ ~Truthy(user)
           THEN latestRun' = asked
           ELSE \/ latestRun' = [asked EXCEPT !.state = "error"]
                \/ /\ first = {}
                   /\ latestRun' = asked
                \/ \E id \in first :
                     latestRun' = [asked EXCEPT !.data = <<runs[id]>>]
    /\ UNCHANGED <<execVars, clientData, mappedData, runsList, deleteVars, openai>>

(***************************************************************************)
(* SpecRuns: one caller runs automations one after the other while the     *)
(* clock advances; at any moment the run history is read, and the          *)
(* behaviour is followed up to that read.                                  *)
(***************************************************************************)
BeforeRead(A) == latestRun.state = "idle" /\ A

NextRuns ==
    \/ BeforeRead(Tick)
    \/ \E a \in ConcurrentAutomations :
         BeforeRead(Invoke(1, a, "pat@example.com"))
    \/ BeforeRead(InsertRun(1)) \/ BeforeRead(Dispatch(1))
    \/ BeforeRead(EmailStart(1)) \/ BeforeRead(EmailSession(1))
    \/ BeforeRead(EmailSend(1))
    \/ BeforeRead(UpdateRun(1)) \/ BeforeRead(SkipUpdate(1))
    \/ BeforeRead(Again(1))
    \/ \E automationId \in {Null, "A1", "A2"}, user \in {Null, "u1"} :
         UseLatestAutomationRun(automationId, user)

SpecRuns == Init /\ [][NextRuns]_vars

(***************************************************************************)
(* useAutomationRuns: .eq(automation_id).order(finished_at, descending)    *)
(* .limit(10).  Rows with equal sort keys come in any order.               *)
(***************************************************************************)
RunsLimit == 10

RunsOfAutomation(rows, automationId) ==
    {id \in DOMAIN rows : rows[id].automation_id = automationId}

RECURSIVE Pages(_, _, _)
Pages(rows, ids, limit) ==
    IF limit = 0 \/ ids = {}
    THEN {<<>>}
    ELSE UNION {{<<rows[id]>> \o rest : rest \in Pages(rows, ids \ {id}, limit - 1)} :
                    id \in FirstDescending(rows, ids)}

UseAutomationRuns(automationId, user) ==
    /\ runsList.state = "idle"
    /\ LET asked == [automationId |-> automationId, user |-> user,
                     state |-> "success", data |-> <<>>]
       IN  IF ~Truthy(automationId) \/ ~Truthy(user)
           THEN runsList' = asked
           ELSE \/ runsList' = [asked EXCEPT !.state = "error"]
                \/ \E page \in Pages(runs, RunsOfAutomation(runs, automationId),
                                     RunsLimit) :
                     runsList' = [asked EXCEPT !.data = page]
    /\ UNCHANGED <<execVars, clientData, mappedData, latestRun, deleteVars, openai>>

(***************************************************************************)
(* SpecList: the run list is read once from a table of finished runs, the  *)
(* i-th of them finished at time i.                                        *)
(***************************************************************************)
RunKinds == {<<"A1", "completed">>, <<"A2", "failed">>}

FinishedRun(id, kind) ==
    [id |-> id, automation_id |-> kind[1], automation_status |-> kind[2],
     started_at |-> id, finished_at |-> id,
     error_message |-> IF kind[2] = "failed" THEN "Failed to send email" ELSE Null,
     result_data |-> NoData]

RunTables ==
    UNION {{[id \in 1..n |-> FinishedRun(id, kinds[id])] : kinds \in [1..n -> RunKinds]} :
              n \in 0..MaxRuns}

InitList ==
    /\ runs \in RunTables
    /\ nextRunId = Len(runs) + 1
    /\ now = Len(runs) + 1
    /\ calls = 0
    /\ ex = [p \in Procs |-> IdleCall]
    /\ hist = [p \in Procs |-> NoHistory]
    /\ statusLog = [id \in DOMAIN runs |-> <<"running", runs[id].automation_status>>]
    /\ clientData = <<>>
    /\ mappedData = NoClients
    /\ latestRun = NoQuery
    /\ runsList = NoQuery
    /\ automations = AutomationIds
    /\ del = NoDelete
    /\ openai = NoKey

NextList ==
    \E automationId \in {Null, "A1"}, user \in {Null, "u1"} :
        UseAutomationRuns(automationId, user)

SpecList == InitList /\ [][NextList]_vars

(***************************************************************************)
(* SpecKey: the two readers of VITE_OPENAI_API_KEY are called, in any      *)
(* order, in an environment where the variable is unset or any short       *)
(* string.                                                                 *)
(***************************************************************************)
MaxKeyLen == 3

KeyChars == {" ", "\t", "k", "s"}

EnvStrings ==
    {Undefined} \cup {Str(chars) : chars \in UNION {[1..n -> KeyChars] : n \in 0..MaxKeyLen}}

InitKey ==
    /\ runs = <<>>
    /\ nextRunId = 1
    /\ now = 1
    /\ calls = 0
    /\ ex = [p \in Procs |-> IdleCall]
    /\ hist = [p \in Procs |-> NoHistory]
    /\ statusLog = <<>>
    /\ clientData = <<>>
    /\ mappedData = NoClients
    /\ latestRun = NoQuery
    /\ runsList = NoQuery
    /\ automations = AutomationIds
    /\ del = NoDelete
    /\ \E env \in EnvStrings : openai = [NoKey EXCEPT !.env = env]

CallGetOpenAIApiKey ==
    /\ openai.key = NotCalled
    /\ LET key == GetOpenAIApiKey(openai.env) IN
       openai' = [openai EXCEPT !.key = [called |-> TRUE, threw |-> key.threw,
                                         value |-> key.value]]
    /\ UNCHANGED <<execVars, clientData, mappedData, latestRun, runsList, deleteVars>>

CallIsOpenAIConfigured ==
    /\ openai.configured = NotCalled
    /\ LET configured == IsOpenAIConfigured(openai.env) IN
       openai' = [openai EXCEPT !.configured =
                     [called |-> TRUE, threw |-> configured.threw,
                      value |-> configured.value]]
    /\ UNCHANGED <<execVars, clientData, mappedData, latestRun, runsList, deleteVars>>

NextKey == CallGetOpenAIApiKey \/ CallIsOpenAIConfigured

SpecKey == InitKey /\ [][NextKey]_vars

(***************************************************************************)
(* useDeleteAutomation: the runs of the automation are deleted, then the   *)
(* automation.  An error of the first request is logged and the mutation   *)
(* goes on; an error of the second is thrown.                              *)
(***************************************************************************)
DeleteMutate(id) ==
    /\ del.pc = "idle"
    /\ del' = [NoDelete EXCEPT !.pc = "delete-runs", !.id = id]
    /\ UNCHANGED <<execVars, clientData, mappedData, latestRun, runsList,
                   automations, openai>>

RunsKept(rows, id) == {run \in DOMAIN rows : rows[run].automation_id # id}

(* Mutant of DeleteRuns: an error of the runs request ends the mutation.   *)
DeleteRunsAborts ==
    /\ del.pc = "delete-runs"
    /\ \/ /\ runs' = [run \in RunsKept(runs, del.id) |-> runs[run]]
          /\ del' = [del EXCEPT !.pc = "delete-automation",
                                !.log = Append(@, "delete-runs")]
       \/ /\ runs' = runs
          /\ del' = [del EXCEPT !.pc = "error",
                                !.log = Append(@, "delete-runs"),
                                !.failedCalls = @ \cup {"delete-runs"}]
    /\ UNCHANGED <<nextRunId, now, calls, ex, hist, statusLog, clientData,
                   mappedData, latestRun, runsList, automations, openai>>

DeleteRuns ==
    /\ del.pc = "delete-runs"
    /\ \/ /\ runs' = [run \in RunsKept(runs, del.id) |-> runs[run]]
          /\ del' = [del EXCEPT !.pc = "delete-automation",
                                !.log = Append(@, "delete-runs")]
       \/ /\ runs' = runs
          /\ del' = [del EXCEPT !.pc = "delete-automation",
                                !.log = Append(@, "delete-runs"),
                                !.failedCalls = @ \cup {"delete-runs"}]
    /\ UNCHANGED <<nextRunId, now, calls, ex, hist, statusLog, clientData,
                   mappedData, latestRun, runsList, automations, openai>>

DeleteAutomationRow ==
    /\ del.pc = "delete-automation"
    /\ \/ /\ automations' = automations \ {del.id}
          /\ del' = [del EXCEPT !.pc = "success",
                                !.log = Append(@, "delete-automation")]
       \/ /\ automations' = automations
          /\ del' = [del EXCEPT !.pc = "error",
                                !.log = Append(@, "delete-automation"),
                                !.failedCalls = @ \cup {"delete-automation"}]
    /\ UNCHANGED <<execVars, clientData, mappedData, latestRun, runsList, openai>>

(***************************************************************************)
(* SpecDelete: an automation is deleted while executeAutomation calls, for *)
(* it and for another automation, are in flight.                           *)
(***************************************************************************)
NextDelete ==
    \/ \E p \in Procs :
          \/ \E a \in ConcurrentAutomations : Invoke(p, a, "pat@example.com")
          \/ EmailSteps(p)
    \/ DeleteMutate("A1")
    \/ DeleteRuns
    \/ DeleteAutomationRow

SpecDelete == Init /\ [][NextDelete]_vars

(***************************************************************************)
(* Reading the histories.                                                  *)
(***************************************************************************)
Count(log, request) == Cardinality({i \in DOMAIN log : log[i] = request})

SideEffects == {"send-email", "llm"}

Returned(p) == ex[p].pc = "returned"

HasRun(p) == ex[p].run # NoRun /\ ex[p].run \in DOMAIN runs

RunOf(p) == runs[ex[p].run]

UpdateSucceeded(p) ==
    "update" \in {hist[p].log[i] : i \in DOMAIN hist[p].log}
    /\ "update" \notin hist[p].failedCalls

(***************************************************************************)
(* C1.  In every executeAutomation call the insert of the "running" row is *)
(* the first request, the side effect (send-email invoke, LLM call) comes  *)
(* only after the insert was attempted and before the handler returns, and *)
(* the status update is issued only after the handler has returned; a row  *)
(* of the call is out of "running" only once that update was issued.       *)
(***************************************************************************)
StepsInOrder ==
    \A p \in Procs :
      LET log == hist[p].log IN
      /\ \A i \in DOMAIN log :
           /\ log[i] = "insert" => i = 1
           /\ log[i] \in SideEffects =>
                /\ \E j \in 1..(i - 1) : log[j] = "insert"
                /\ \A j \in 1..(i - 1) : log[j] \notin {"handler-returned", "update"}
           /\ log[i] = "update" =>
                \E j \in 1..(i - 1) : log[j] = "handler-returned"
      /\ (HasRun(p) /\ RunOf(p).automation_status # "running") =>
           (log # <<>> /\ log[Len(log)] = "update")

StepsInOrderWitness ==
    \E p \in Procs :
      /\ hist[p].log = <<"insert", "get-session", "send-email",
                         "handler-returned", "update">>
      /\ HasRun(p)
      /\ RunOf(p).automation_status = "completed"

(***************************************************************************)
(* C2 as stated.  Every row inserted by executeAutomation is "completed"   *)
(* or "failed" when that call returns, whatever remote calls failed.       *)
(***************************************************************************)
RunNeverLeftRunning ==
    \A p \in Procs :
      (Returned(p) /\ HasRun(p)) =>
         RunOf(p).automation_status \in {"completed", "failed"}

(***************************************************************************)
(* C2 as amended.  When the call returns, the row it inserted is           *)
(* "completed" or "failed" exactly if the status update request succeeded; *)
(* if that update fails the error is only logged and the row is left       *)
(* "running".                                                              *)
(***************************************************************************)
RunFinishedUnlessUpdateFails ==
    \A p \in Procs :
      (Returned(p) /\ HasRun(p)) =>
         (RunOf(p).automation_status \in {"completed", "failed"}
            <=> "update" \notin hist[p].failedCalls)

RunFinishedWitness ==
    \E p \in Procs :
      /\ Returned(p) /\ HasRun(p)
      /\ "send-email" \in hist[p].failedCalls
      /\ RunOf(p).automation_status = "failed"

(***************************************************************************)
(* C3.  A run row is created "running"; its status is only ever            *)
(* "running", "completed" or "failed"; it moves at most once, from         *)
(* "running" to "completed" or to "failed", and no step of any execution   *)
(* changes it afterwards.                                                  *)
(***************************************************************************)
RunLifecycle ==
    \A id \in DOMAIN statusLog :
      /\ statusLog[id] \in {<<"running">>, <<"running", "completed">>,
                            <<"running", "failed">>}
      /\ id \in DOMAIN runs =>
           runs[id].automation_status = statusLog[id][Len(statusLog[id])]

RunLifecycleWitness ==
    \E id \in DOMAIN statusLog :
      /\ statusLog[id] = <<"running", "failed">>
      /\ \E p \in Procs :
           /\ Returned(p) /\ HasRun(p) /\ ex[p].run # id
           /\ UpdateSucceeded(p)
           /\ RunOf(p).automation_id = runs[id].automation_id

(***************************************************************************)
(* C4 as stated.  The run ends "failed" if and only if one of the remote   *)
(* calls of the execution failed (client fetch, deals / interactions /     *)
(* prioritization fetches, session lookup, send-email invoke, LLM call),   *)
(* and "completed" if and only if none did.                                *)
(***************************************************************************)
ListedCalls ==
    {"fetch-client", "fetch-client-by-id", "fetch-deals", "fetch-interactions",
     "fetch-prioritization", "get-session", "send-email", "llm"}

FinalStatusIffRemoteFailure ==
    \A p \in Procs :
      (Returned(p) /\ HasRun(p) /\ UpdateSucceeded(p)) =>
         /\ RunOf(p).automation_status = "failed"
              <=> hist[p].failedCalls \cap ListedCalls # {}
         /\ RunOf(p).automation_status = "completed"
              <=> hist[p].failedCalls \cap ListedCalls = {}

(***************************************************************************)
(* C4 as amended.  When the status update succeeds, the run ends "failed"  *)
(* if and only if the handler returned success = false, and "completed"    *)
(* otherwise.  A failed session lookup, send-email invoke or LLM call, and *)
(* a client fetch that fails without being recovered by the lookup by id,  *)
(* always end the run "failed"; a "completed" run can only have failed in  *)
(* the auxiliary deals / interactions / prioritization fetches or in a     *)
(* client_id lookup that the lookup by id recovered.  (A run also fails    *)
(* with no remote failure at all: validation, no recipient, no session, no *)
(* API key, unknown type.)                                                 *)
(***************************************************************************)
Requested(p, request) == request \in {hist[p].log[i] : i \in DOMAIN hist[p].log}

ClientFetchRecovered(p) ==
    Requested(p, "fetch-client-by-id")
    /\ "fetch-client-by-id" \notin hist[p].failedCalls

FatalFailure(p) ==
    \/ hist[p].failedCalls
         \cap {"get-session", "send-email", "llm", "fetch-client-by-id"} # {}
    \/ "fetch-client" \in hist[p].failedCalls /\ ~ClientFetchRecovered(p)

TolerableFailures(p) ==
    {"fetch-deals", "fetch-interactions", "fetch-prioritization"}
    \cup (IF ClientFetchRecovered(p) THEN {"fetch-client"} ELSE {})

FinalStatusFollowsResult ==
    \A p \in Procs :
      (Returned(p) /\ HasRun(p) /\ UpdateSucceeded(p)) =>
         /\ RunOf(p).automation_status =
              (IF ex[p].result.success THEN "completed" ELSE "failed")
         /\ FatalFailure(p) => RunOf(p).automation_status = "failed"
         /\ RunOf(p).automation_status = "completed" =>
              hist[p].failedCalls \subseteq TolerableFailures(p)

FinalStatusWitness ==
    \E p \in Procs :
      /\ Returned(p) /\ HasRun(p) /\ UpdateSucceeded(p)
      /\ RunOf(p).automation_status = "completed"
      /\ {"fetch-client", "fetch-deals"} \subseteq hist[p].failedCalls

(***************************************************************************)
(* C5.  No retry: within one executeAutomation call no request is issued   *)
(* twice, so a failed step is never attempted again, and at most one       *)
(* outbound side effect (send-email invoke or LLM call) is issued.         *)
(***************************************************************************)
NoRetry ==
    \A p \in Procs :
      LET log == hist[p].log IN
      /\ \A i, j \in DOMAIN log : i # j => log[i] # log[j]
      /\ Count(log, "send-email") + Count(log, "llm") <= 1

NoRetryWitness ==
    \E p \in Procs :
      /\ Returned(p)
      /\ "llm" \in hist[p].failedCalls
      /\ Count(hist[p].log, "llm") = 1

(***************************************************************************)
(* C6.  executeAutomation and its handlers never reject: every call ends   *)
(* by returning a result, and whenever a handler threw, the automation     *)
(* type was unknown or the automation was disabled, the result has         *)
(* success = false; every result with success = false carries a non-empty  *)
(* message.                                                                *)
(***************************************************************************)
NeverThrows ==
    \A p \in Procs :
      /\ ex[p].pc # "rejected"
      /\ Returned(p) =>
           /\ ex[p].result # NoResult
           /\ (\/ hist[p].thrown
               \/ IsDisabled(ex[p].automation)
               \/ ActionType(ex[p].automation)
                    \notin {"email", "meeting", "ai-summary"})
                => ~ex[p].result.success
           /\ ~ex[p].result.success => Truthy(ex[p].result.message)

NeverThrowsWitness ==
    \E p \in Procs :
      /\ Returned(p)
      /\ hist[p].thrown
      /\ "send-email" \in hist[p].failedCalls
      /\ ex[p].automation.action_type_type = "meeting"
      /\ ex[p].result = Failure("Failed to send meeting follow-up email")

(***************************************************************************)
(* C7.  Overlapping executeAutomation calls are independent: each call     *)
(* that got a row got a row of its own, and that row carries the call's    *)
(* own automation id and, once the call's update succeeded, the call's own *)
(* outcome (status and error_message); until then it is untouched by the   *)
(* other call.                                                             *)
(***************************************************************************)
IndependentRuns ==
    /\ \A p, q \in Procs :
         (p # q /\ ex[p].run # NoRun /\ ex[q].run # NoRun) => ex[p].run # ex[q].run
    /\ \A p \in Procs :
         HasRun(p) =>
           /\ RunOf(p).id = ex[p].run
           /\ RunOf(p).automation_id = AutomationIdForRun(ex[p].automation)
           /\ IF UpdateSucceeded(p)
              THEN /\ RunOf(p).automation_status =
                        (IF ex[p].result.success THEN "completed" ELSE "failed")
                   /\ RunOf(p).error_message =
                        (IF ex[p].result.success THEN Null ELSE ex[p].result.message)
              ELSE /\ RunOf(p).automation_status = "running"
                   /\ RunOf(p).error_message = Null
                   /\ RunOf(p).finished_at = NullTime

IndependentRunsWitness ==
    \E p, q \in Procs :
      /\ p # q
      /\ Returned(p) /\ HasRun(p) /\ UpdateSucceeded(p)
      /\ Returned(q) /\ HasRun(q) /\ UpdateSucceeded(q)
      /\ ex[p].automation = ex[q].automation
      /\ RunOf(p).automation_status = "completed"
      /\ RunOf(q).automation_status = "failed"
      /\ RunOf(q).error_message = "remote error"

(***************************************************************************)
(* C8 as stated.  When an automation carries a canonical field and its     *)
(* alias with different values, the canonical one alone decides: the       *)
(* automation_id of the run row and the update target (over id), the       *)
(* handler dispatched and whether result_data is saved (action_type_type   *)
(* over action_type), the stored flag and whether the automation is        *)
(* treated as enabled (is_enabled over is_active).                         *)
(***************************************************************************)
Differ(canonical, alias) ==
    Truthy(canonical) /\ Truthy(alias) /\ canonical # alias

HandlerPcs(type) ==
    CASE type = "email" -> {"email", "email-client", "email-session", "email-send"}
      [] type = "meeting" -> {"meeting", "meeting-client", "meeting-session",
                              "meeting-send"}
      [] type = "ai-summary" -> {"ai-summary", "ai-client", "ai-client-by-id",
                                 "ai-deals", "ai-interactions",
                                 "ai-prioritization", "ai-key", "ai-llm"}
      [] OTHER -> {}

TreatedAsDisabled(p) ==
    Returned(p) /\ ex[p].result = Failure("Automation is disabled")

CanonicalIdDecides ==
    \A p \in Procs :
      (Differ(ex[p].automation.automation_id, ex[p].automation.id) /\ HasRun(p))
         => RunOf(p).automation_id = ex[p].automation.automation_id

CanonicalTypeDispatches ==
    \A p \in Procs :
      Differ(ex[p].automation.action_type_type, ex[p].automation.action_type) =>
         \A type \in {"email", "meeting", "ai-summary"} :
            ex[p].pc \in HandlerPcs(type) =>
               ex[p].automation.action_type_type = type

CanonicalTypeSavesResult ==
    \A p \in Procs :
      (/\ Differ(ex[p].automation.action_type_type, ex[p].automation.action_type)
       /\ Returned(p) /\ HasRun(p) /\ UpdateSucceeded(p)
       /\ RunOf(p).result_data # NoData)
         => ex[p].automation.action_type_type = "ai-summary"

CanonicalFlagEnables ==
    \A p \in Procs :
      (ex[p].pc # "idle" /\ ex[p].automation.is_enabled # ex[p].automation.is_active)
         => (TreatedAsDisabled(p) <=> ~ex[p].automation.is_enabled)

HooksPreferCanonical ==
    /\ \A a \in CreateInputs :
         /\ Differ(a.action_type_type, a.action_type) =>
              DbAutomation(a).action_type_type = a.action_type_type
         /\ (a.is_enabled # <<>> /\ a.is_active # <<>>) =>
              DbAutomation(a).is_enabled = a.is_enabled
    /\ \A u \in UpdateInputs :
         /\ Differ(u.automation_id, u.id) => TargetId(u) = u.automation_id
         /\ Differ(u.action_type_type, u.action_type) =>
              DbUpdates(u).action_type_type = u.action_type_type
         /\ (u.is_enabled # <<>> /\ u.is_active # <<>>) =>
              DbUpdates(u).is_enabled = u.is_enabled

CanonicalFieldDecides ==
    /\ HooksPreferCanonical
    /\ CanonicalIdDecides
    /\ CanonicalTypeDispatches
    /\ CanonicalTypeSavesResult
    /\ CanonicalFlagEnables

(***************************************************************************)
(* C9.  useClients returns one row per fetched row, in the same order,     *)
(* with id = client_id when it is present and else id, source = source     *)
(* when present, else lead_source, else null, and status = priority when   *)
(* present, else status, else null; every other column is the fetched      *)
(* one.  "Present" is JavaScript truthiness: null, undefined and the empty *)
(* string count as absent.                                                 *)
(***************************************************************************)
ClientsMapped ==
    mappedData.state = "success" =>
      /\ Len(mappedData.data) = Len(clientData)
      /\ \A i \in DOMAIN clientData :
           LET c == clientData[i]
               m == mappedData.data[i]
           IN  /\ m.id = (IF Truthy(c.client_id) THEN c.client_id ELSE c.id)
               /\ m.source = (IF Truthy(c.source) THEN c.source
                              ELSE IF Truthy(c.lead_source) THEN c.lead_source
                              ELSE Null)
               /\ m.status = (IF Truthy(c.priority) THEN c.priority
                              ELSE IF Truthy(c.status) THEN c.status
                              ELSE Null)
               /\ DOMAIN m = DOMAIN c
               /\ \A column \in DOMAIN c \ {"id", "source", "status"} :
                    m[column] = c[column]

ClientsMappedWitness ==
    /\ mappedData.state = "success"
    /\ Len(clientData) = 2
    /\ clientData[1].client_id = "c1" /\ clientData[1].id = "i1"
    /\ mappedData.data[1].id = "c1"
    /\ clientData[2].source = Null /\ mappedData.data[2].source = "ads"
    /\ clientData[2].priority = "" /\ clientData[2].status = ""
    /\ mappedData.data[2].status = Null

(***************************************************************************)
(* C10.  useLatestAutomationRun returns null when the automation id or the *)
(* user is missing or the automation has no "completed" run; otherwise it  *)
(* returns a "completed" run of that automation whose finished_at is the   *)
(* greatest among them, never a "running" or "failed" one, whatever runs   *)
(* came later.                                                             *)
(***************************************************************************)
LatestRunIsLatestCompleted ==
    latestRun.state = "success" =>
      LET completed == {id \in DOMAIN runs :
                          /\ runs[id].automation_id = latestRun.automationId
                          /\ runs[id].automation_status = "completed"}
      IN  IF \/ ~Truthy(latestRun.automationId)
             \/ ~Truthy(latestRun.user)
             \/ completed = {}
          THEN latestRun.data = <<>>
          ELSE /\ Len(latestRun.data) = 1
               /\ latestRun.data[1] \in {runs[id] : id \in completed}
               /\ \A id \in completed :
                    runs[id].finished_at <= latestRun.data[1].finished_at

LatestRunWitness ==
    /\ latestRun.state = "success"
    /\ Len(latestRun.data) = 1
    /\ \E id \in DOMAIN runs :
         /\ runs[id].automation_id = latestRun.automationId
         /\ runs[id].automation_status = "failed"
         /\ runs[id].finished_at > latestRun.data[1].finished_at

(***************************************************************************)
(* C11. useAutomationRuns returns all runs of the given automation: every  *)
(* automation_runs row whose automation_id equals the argument is in the   *)
(* returned list, however many runs the automation has, and no row of      *)
(* another automation is.                                                  *)
(***************************************************************************)
Listed(query) == {query.data[i] : i \in DOMAIN query.data}

RunsListAnswered ==
    /\ runsList.state = "success"
    /\ Truthy(runsList.automationId)
    /\ Truthy(runsList.user)

RunsListOnlyOfAutomation ==
    RunsListAnswered =>
        \A row \in Listed(runsList) : row.automation_id = runsList.automationId

RunsListComplete ==
    RunsListAnswered =>
        \A id \in DOMAIN runs :
            runs[id].automation_id = runsList.automationId
                => runs[id] \in Listed(runsList)

RunsListIsAllRuns == RunsListOnlyOfAutomation /\ RunsListComplete

(***************************************************************************)
(* C12. getOpenAIApiKey returns the configured VITE_OPENAI_API_KEY with    *)
(* surrounding whitespace removed, and throws when the variable is unset,  *)
(* empty or only whitespace (it never returns an empty string);            *)
(* isOpenAIConfigured never throws and returns true exactly in the cases   *)
(* where getOpenAIApiKey would return without throwing.                    *)
(***************************************************************************)
OnlyWhiteSpace(chars) == \A i \in DOMAIN chars : chars[i] \in WhiteSpace

Blank(env) == ~env.defined \/ OnlyWhiteSpace(env.chars)

(* value is chars without the whitespace around it *)
IsStripped(value, chars) ==
    /\ value # <<>>
    /\ value[1] \notin WhiteSpace
    /\ value[Len(value)] \notin WhiteSpace
    /\ \E i \in 1..Len(chars) :
          /\ i + Len(value) - 1 <= Len(chars)
          /\ SubSeq(chars, i, i + Len(value) - 1) = value
          /\ OnlyWhiteSpace(SubSeq(chars, 1, i - 1))
          /\ OnlyWhiteSpace(SubSeq(chars, i + Len(value), Len(chars)))

ApiKeyContract ==
    /\ openai.key.called =>
          IF Blank(openai.env)
          THEN openai.key.threw
          ELSE ~openai.key.threw /\ IsStripped(openai.key.value, openai.env.chars)
    /\ openai.configured.called =>
          /\ ~openai.configured.threw
          /\ openai.configured.value = ~Blank(openai.env)
    /\ openai.key.called /\ openai.configured.called =>
          openai.configured.value = ~openai.key.threw

ApiKeyContractWitness ==
    /\ openai.key.called
    /\ openai.configured.called
    /\ openai.configured.value
    /\ openai.env.chars = <<" ", "k", "\t">>
    /\ openai.key.value = <<"k">>

(***************************************************************************)
(* C13. Running an email automation sends the email immediately            *)
(* regardless of the configured email_send_date: for a valid message,      *)
(* recipient and session, send-email is invoked whether email_send_date is *)
(* absent, in the past, or more than one minute in the future, and the     *)
(* schedule never changes the result.                                      *)
(***************************************************************************)
RanEmailHandler(p) ==
    /\ Returned(p)
    /\ ~IsDisabled(ex[p].automation)
    /\ ActionType(ex[p].automation) = "email"

RecipientResolved(p) ==
    \/ Truthy(ex[p].clientEmail)
    \/ /\ Requested(p, "fetch-client")
       /\ "fetch-client" \notin hist[p].failedCalls
       /\ ex[p].result.message # RecipientRequired

SessionMissing(p) ==
    /\ Requested(p, "get-session")
    /\ ex[p].result.message = "User not authenticated"

ReadyToSend(p) ==
    /\ RanEmailHandler(p)
    /\ Truthy(ex[p].automation.config.email_message)
    /\ RecipientResolved(p)
    /\ ~SessionMissing(p)

SendsWhateverTheSchedule ==
    \A p \in Procs :
        ReadyToSend(p) =>
            /\ Requested(p, "send-email")
            /\ ex[p].result.success <=> "send-email" \notin hist[p].failedCalls
            /\ ex[p].result \in
                  {EmailSent(p, message) : message \in RemoteMessages}
                  \cup {EmailCatch(EmailSendFailed(message)) :
                           message \in RemoteMessages}

SendsWhateverTheScheduleWitness ==
    /\ ReadyToSend(1)
    /\ ex[1].automation.config.email_send_date = "00:09"
    /\ ex[1].scheduledNote
    /\ Requested(1, "send-email")
    /\ ex[1].result.success

SentWithPastDate ==
    /\ ReadyToSend(1)
    /\ ex[1].automation.config.email_send_date = "00:00"
    /\ ~ex[1].scheduledNote
    /\ ex[1].result.success

(***************************************************************************)
(* C14. When executeAutomation created a run row and the final update of   *)
(* that row succeeded, then on return the row agrees with the returned     *)
(* result: result.success = true if and only if the row is "completed"     *)
(* with error_message null, result.success = false if and only if the row  *)
(* is "failed" with error_message equal to the returned message; in both   *)
(* cases finished_at is non-null, whereas a row still in status "running"  *)
(* always has finished_at null.                                            *)
(***************************************************************************)
RowAgreesWithResult ==
    /\ \A p \in Procs :
         (Returned(p) /\ HasRun(p) /\ UpdateSucceeded(p)) =>
            LET row == RunOf(p)
                result == ex[p].result
            IN  /\ result.success <=>
                      /\ row.automation_status = "completed"
                      /\ row.error_message = Null
                /\ ~result.success <=>
                      /\ row.automation_status = "failed"
                      /\ row.error_message = result.message
                /\ row.finished_at # NullTime
    /\ \A id \in DOMAIN runs :
         runs[id].automation_status = "running" => runs[id].finished_at = NullTime

RowAgreesWithResultWitness ==
    /\ Returned(1) /\ HasRun(1) /\ UpdateSucceeded(1)
    /\ ~ex[1].result.success
    /\ RunOf(1).automation_status = "failed"
    /\ RunOf(1).error_message = "Client not found: remote error"
    /\ RunOf(1).finished_at = now

(***************************************************************************)
(* C15. After a successful useDeleteAutomation mutation for an automation, *)
(* no automation_runs row with that automation_id remains: the runs are    *)
(* deleted before the automation row is, and this holds under every        *)
(* interleaving with executeAutomation calls for the same automation that  *)
(* are in flight while the delete runs.                                    *)
(***************************************************************************)
RunsOfDeleted == {run \in DOMAIN runs : runs[run].automation_id = del.id}

DeletesRunsFirst ==
    \A i \in DOMAIN del.log :
        del.log[i] = "delete-automation" =>
            \E j \in 1..(i - 1) : del.log[j] = "delete-runs"

NoRunsAfterCleanDelete ==
    (del.pc = "success" /\ "delete-runs" \notin del.failedCalls)
        => RunsOfDeleted = {}

NoRunsAfterDelete ==
    /\ DeletesRunsFirst
    /\ del.pc = "success" => RunsOfDeleted = {}

(***************************************************************************)
(* C16. In useDeleteAutomation, a failure to delete the automation's runs  *)
(* does not abort the delete: the deletion of the automations row is still *)
(* attempted afterwards, and the mutation fails if and only if the         *)
(* deletion of the automations row itself returns an error.                *)
(***************************************************************************)
DeleteSettled == del.pc \in {"success", "error"}

DeleteRequested(request) == request \in {del.log[i] : i \in DOMAIN del.log}

DeleteFailsOnlyOnAutomationError ==
    /\ del.pc \in {"idle", "delete-runs", "delete-automation", "success", "error"}
    /\ "delete-runs" \in del.failedCalls =>
          del.pc = "delete-automation" \/ DeleteRequested("delete-automation")
    /\ DeleteSettled =>
          /\ DeleteRequested("delete-automation")
          /\ del.pc = "error" <=> "delete-automation" \in del.failedCalls

DeleteFailsOnlyOnAutomationErrorWitness ==
    /\ del.pc = "success"
    /\ "delete-runs" \in del.failedCalls
    /\ del.log = <<"delete-runs", "delete-automation">>
    /\ del.id \notin automations

(***************************************************************************)
(* C17. For email and meeting automations the recipient is the email of    *)
(* the client identified by config.client_id when a client_id is provided, *)
(* and the clientEmail argument passed by the caller is used otherwise     *)
(* (only when no client_id is configured).                                 *)
(***************************************************************************)
HasRecipient(p) ==
    /\ ActionType(ex[p].automation) \in {"email", "meeting"}
    /\ Truthy(ex[p].recipientEmail)

RecipientFromArgument ==
    \A p \in Procs :
        (HasRecipient(p) /\ ~Truthy(ex[p].automation.config.client_id)) =>
            /\ ex[p].recipientEmail = ex[p].clientEmail
            /\ ~Requested(p, "fetch-client")

RecipientLookedUpWithoutArgument ==
    \A p \in Procs :
        (HasRecipient(p) /\ Truthy(ex[p].automation.config.client_id)
            /\ ~Truthy(ex[p].clientEmail)) =>
                Requested(p, "fetch-client")

RecipientFromClientId ==
    /\ RecipientFromArgument
    /\ \A p \in Procs :
         (HasRecipient(p) /\ Truthy(ex[p].automation.config.client_id)) =>
             /\ Requested(p, "fetch-client")
             /\ "fetch-client" \notin hist[p].failedCalls

(***************************************************************************)
(* C18. The send-email function is invoked only when every precondition    *)
(* held, checked in this order: the message is non-empty (for a meeting    *)
(* automation both meeting_name and email_content are non-empty), a        *)
(* non-empty recipient email was resolved, and an authenticated session    *)
(* exists; when any precondition fails, send-email is not invoked at all,  *)
(* no later step of the handler runs, and the run is recorded as "failed"  *)
(* with the corresponding message.                                         *)
(***************************************************************************)
RanSendingHandler(p) ==
    /\ Returned(p)
    /\ ~IsDisabled(ex[p].automation)
    /\ ActionType(ex[p].automation) \in {"email", "meeting"}

MessagePresent(p) ==
    LET config == ex[p].automation.config IN
    IF ActionType(ex[p].automation) = "email"
    THEN Truthy(config.email_message)
    ELSE Truthy(config.meeting_name) /\ Truthy(config.email_content)

MessageRequired(p) ==
    IF ActionType(ex[p].automation) = "email"
    THEN "Email message is required"
    ELSE "Meeting name and email content are required"

NoneRequested(p, requests) == \A request \in requests : ~Requested(p, request)

(* the precondition that failed first, and what must follow from it *)
StoppedAtMessage(p) ==
    ~MessagePresent(p) =>
        /\ NoneRequested(p, {"fetch-client", "get-session", "send-email"})
        /\ ex[p].result = Failure(MessageRequired(p))

StoppedAtRecipient(p) ==
    (MessagePresent(p) /\ ~Truthy(ex[p].recipientEmail)) =>
        /\ NoneRequested(p, {"get-session", "send-email"})
        /\ ~ex[p].result.success
        /\ ex[p].result.message \in
              {RecipientRequired}
              \cup {ClientNotFound(message) : message \in RemoteMessages}
        /\ ex[p].result.message = RecipientRequired <=>
              "fetch-client" \notin hist[p].failedCalls

StoppedAtSession(p) ==
    (MessagePresent(p) /\ Truthy(ex[p].recipientEmail) /\ SessionMissing(p)) =>
        /\ NoneRequested(p, {"send-email"})
        /\ ~ex[p].result.success

SentOnlyWhenAllHeld(p) ==
    Requested(p, "send-email") =>
        /\ MessagePresent(p)
        /\ Truthy(ex[p].recipientEmail)
        /\ Requested(p, "get-session")
        /\ "get-session" \notin hist[p].failedCalls

PreconditionFailed(p) ==
    \/ ~MessagePresent(p)
    \/ ~Truthy(ex[p].recipientEmail)
    \/ SessionMissing(p)

RecordedFailed(p) ==
    /\ HasRun(p)
    /\ RunOf(p).automation_status = "failed"
    /\ RunOf(p).error_message = ex[p].result.message

PreconditionsGuardSend(p) ==
    /\ SentOnlyWhenAllHeld(p)
    /\ StoppedAtMessage(p)
    /\ StoppedAtRecipient(p)
    /\ StoppedAtSession(p)

SendOnlyAfterPreconditionsRecorded ==
    \A p \in Procs :
        RanSendingHandler(p) =>
            /\ PreconditionsGuardSend(p)
            /\ PreconditionFailed(p) => RecordedFailed(p)

(***************************************************************************)
(* C18 as amended.  As above, except that the failure is recorded on the   *)
(* run row ("failed", with the corresponding message) when the row was     *)
(* inserted and its status update succeeded; otherwise there is no row, or *)
(* the row is left "running", and the failure is only returned.            *)
(***************************************************************************)
SendOnlyAfterPreconditions ==
    \A p \in Procs :
        RanSendingHandler(p) =>
            /\ PreconditionsGuardSend(p)
            /\ PreconditionFailed(p) =>
                  /\ ~ex[p].result.success
                  /\ (HasRun(p) /\ UpdateSucceeded(p)) <=> RecordedFailed(p)

SendOnlyAfterPreconditionsWitness ==
    /\ RanSendingHandler(1)
    /\ MessagePresent(1)
    /\ Truthy(ex[1].recipientEmail)
    /\ SessionMissing(1)
    /\ ~Requested(1, "send-email")
    /\ RecordedFailed(1)
    /\ RunOf(1).error_message = "User not authenticated"

(***************************************************************************)
(* C19. When both is_enabled and is_active of the automation are falsy,    *)
(* executeAutomation returns {success: false, message: "Automation is      *)
(* disabled"} and issues no remote request at all: no automation_runs row  *)
(* is inserted or updated, no client is fetched, no email is sent and no   *)
(* LLM call is made.                                                       *)
(***************************************************************************)
DisabledDoesNothing ==
    \A p \in Procs :
        (ex[p].pc # "idle" /\ IsDisabled(ex[p].automation)) =>
            /\ Returned(p)
            /\ ex[p].result = Failure("Automation is disabled")
            /\ hist[p] = NoHistory
            /\ ex[p].run = NoRun
            /\ runs = <<>>

DisabledDoesNothingWitness ==
    /\ Returned(1)
    /\ IsDisabled(ex[1].automation)
    /\ ActionType(ex[1].automation) = "email"
    /\ ex[1].automation.config.email_message = "hello"
    /\ ex[1].clientEmail = "pat@example.com"
    /\ ex[1].result.message = "Automation is disabled"

(***************************************************************************)
(* C20. If inserting the "running" run row fails, executeAutomation still  *)
(* dispatches the handler and performs its side effect, returns the        *)
(* handler's result, and writes nothing to automation_runs for that        *)
(* execution (no insert took effect and no update is issued), so the       *)
(* execution leaves no run row behind.                                     *)
(***************************************************************************)
InsertFailed(p) == "insert" \in hist[p].failedCalls

RunsWithoutRowAfterInsertFailure ==
    \A p \in Procs :
        InsertFailed(p) =>
            /\ ex[p].run = NoRun
            /\ ex[p].pc # "insert"
            /\ ~Requested(p, "update")
            /\ runs = <<>>
            /\ nextRunId = 1
            /\ Returned(p) =>
                  /\ Requested(p, "handler-returned")
                  /\ ex[p].result # NoResult
                  /\ ReadyToSend(p) => Requested(p, "send-email")
                  /\ ex[p].result.success <=>
                        /\ \E effect \in SideEffects : Requested(p, effect)
                        /\ SideEffects \cap hist[p].failedCalls = {}

RunsWithoutRowAfterInsertFailureWitness ==
    /\ Returned(1)
    /\ InsertFailed(1)
    /\ Requested(1, "send-email")
    /\ ex[1].result.success
    /\ ex[1].result.data.to = "client@example.com"
    /\ runs = <<>>

(***************************************************************************)
(* C21. result_data is written to a run row only when the execution        *)
(* succeeded, produced data, and the automation is of type ai-summary: no  *)
(* run row of an email or meeting automation and no "failed" run row ever  *)
(* gets result_data written by executeAutomation, and every "completed"    *)
(* ai-summary run whose update succeeded carries the result data           *)
(* (clientId, clientName, summary, generatedAt) returned by the handler.   *)
(***************************************************************************)
NoResultDataOnFailedRows ==
    \A id \in DOMAIN runs :
        runs[id].automation_status \in {"running", "failed"}
            => runs[id].result_data = NoData

SummariesCarryResultData ==
    \A p \in Procs :
        (/\ Returned(p) /\ HasRun(p) /\ UpdateSucceeded(p)
         /\ ActionType(ex[p].automation) = "ai-summary"
         /\ RunOf(p).automation_status = "completed") =>
            /\ RunOf(p).result_data = ex[p].result.data
            /\ RunOf(p).result_data.kind = "ai-summary"
            /\ Truthy(RunOf(p).result_data.clientId)
            /\ Truthy(RunOf(p).result_data.clientName)
            /\ Truthy(RunOf(p).result_data.summary)
            /\ RunOf(p).result_data.generatedAt = now

NoResultDataForEmails(p) ==
    (HasRun(p) /\ ActionType(ex[p].automation) \in {"email", "meeting"})
        => RunOf(p).result_data = NoData

(* the first part, for automations whose alias equals the canonical type *)
NoResultDataForCanonicalEmails ==
    \A p \in Procs :
        ex[p].automation.action_type = ex[p].automation.action_type_type
            => NoResultDataForEmails(p)

ResultDataOnlyForSummaries ==
    /\ NoResultDataOnFailedRows
    /\ SummariesCarryResultData
    /\ \A p \in Procs : NoResultDataForEmails(p)

====
